---- MODULE Spec2Model ----
(***************************************************************************)
(* A model of countme/__init__.py: the time codec (weeknum,               *)
(* parse_logtime), the query decoding, the log matchers, the item writers  *)
(* and the item readers.                                                   *)
(*                                                                         *)
(* Python values are tagged records, so that an int and a str never        *)
(* compare equal:  [t |-> "int", i |-> 5], [t |-> "str", s |-> <<"5">>],    *)
(* [t |-> "None"].  A str is a sequence of one-character strings.          *)
(* A call that may raise returns [exc |-> "none", val |-> v] or            *)
(* [exc |-> <exception class>].                                            *)
(***************************************************************************)
EXTENDS Integers, Sequences, FiniteSets, TLC

VARIABLES
  \* weeknum
  timestamp,    \* the arguments of the last weeknum calls: <<e1, e2, k>>
  week,         \* their results: <<weeknum(e1), weeknum(e2), weeknum(e1 + k*WEEK_LEN)>>
  \* parse_logtime / strptime_logtime
  logtime,      \* the timestamp text last parsed
  fast,         \* parse_logtime(logtime)
  slow,         \* strptime_logtime(logtime)
  \* LogMatcher
  matcher,      \* the matcher class iterating: "MirrorMatcher" | "CountmeMatcher"
  fileobj,      \* the lines of the log file
  linepos,      \* the number of lines the generator has consumed
  yielded,      \* the items the generator has yielded, in order
  raised,       \* the exception that ended the iteration, or "none"
  \* ItemWriter / ItemReader
  fp,           \* the text resource: the rows written to (or found in) it
  db,           \* the SQLite database behind fp.name
  writer,       \* the ItemWriter instance, or None
  wstate,       \* where the writer's caller is in the protocol
  werr,         \* the exception the last writer call raised, or "none"
  sqllog,       \* the statements the writer's connection has run, in order
  written,      \* the items handed to write_item, in order
  wargs,        \* the arguments of the make_writer call, or None
  reader,       \* the ItemReader instance (also when __init__ raised), or None
  rstate,       \* "closed" | "open" | "failed" | "done"
  rerr,         \* the exception the reader's construction raised, or "none"
  readitems     \* the items the reader has yielded, in order

weekvars == <<timestamp, week>>
timevars == <<logtime, fast, slow>>
matchvars == <<matcher, fileobj, linepos, yielded, raised>>
iovars == <<fp, db, writer, wstate, werr, sqllog, written, wargs, reader, rstate, rerr, readitems>>
vars == <<weekvars, timevars, matchvars, iovars>>

\* ------------------------------------------------------------------ values

None == [t |-> "None"]
PyInt(n) == [t |-> "int", i |-> n]
PyStr(chars) == [t |-> "str", s |-> chars]
PyTuple(elems) == [t |-> "tuple", v |-> elems]
Ok(v) == [exc |-> "none", val |-> v]
Raise(kind) == [exc |-> kind]

Digits == {"0", "1", "2", "3", "4", "5", "6", "7", "8", "9"}

DigitVal(c) ==
  CASE c = "0" -> 0 [] c = "1" -> 1 [] c = "2" -> 2 [] c = "3" -> 3 [] c = "4" -> 4
    [] c = "5" -> 5 [] c = "6" -> 6 [] c = "7" -> 7 [] c = "8" -> 8 [] c = "9" -> 9

DigitChar(d) ==
  CASE d = 0 -> "0" [] d = 1 -> "1" [] d = 2 -> "2" [] d = 3 -> "3" [] d = 4 -> "4"
    [] d = 5 -> "5" [] d = 6 -> "6" [] d = 7 -> "7" [] d = 8 -> "8" [] d = 9 -> "9"

AllDigits(s) == \A i \in 1..Len(s) : s[i] \in Digits

RECURSIVE DigitsVal(_)
DigitsVal(s) ==
  IF s = <<>> THEN 0
  ELSE 10 * DigitsVal(SubSeq(s, 1, Len(s) - 1)) + DigitVal(s[Len(s)])

\* s.strip() for the blank the model's alphabet holds.
RECURSIVE strip(_)
strip(s) ==
  IF s /= <<>> /\ s[1] = " " THEN strip(Tail(s))
  ELSE IF s /= <<>> /\ s[Len(s)] = " " THEN strip(SubSeq(s, 1, Len(s) - 1))
  ELSE s

\* int(x) of a str or None: blanks stripped, an optional sign, then digits;
\* anything else raises ValueError, and None raises TypeError.
int(x) ==
  IF x = None THEN Raise("TypeError")
  ELSE
    LET s == strip(x.s)
        signed == s /= <<>> /\ s[1] \in {"+", "-"}
        body == IF signed THEN Tail(s) ELSE s
    IN IF body = <<>> \/ ~AllDigits(body) THEN Raise("ValueError")
       ELSE Ok(IF signed /\ s[1] = "-" THEN 0 - DigitsVal(body) ELSE DigitsVal(body))

RECURSIVE NatStr(_)
NatStr(n) == IF n < 10 THEN <<DigitChar(n)>> ELSE NatStr(n \div 10) \o <<DigitChar(n % 10)>>

\* str(v) of an int, a str or None.
str(v) ==
  CASE v.t = "int" -> IF v.i < 0 THEN <<"-">> \o NatStr(0 - v.i) ELSE NatStr(v.i)
    [] v.t = "str" -> v.s
    [] v.t = "None" -> <<"N", "o", "n", "e">>

\* s.split(sep, maxsplit): the parts, at most maxsplit + 1 of them.
RECURSIVE split(_, _, _)
split(s, sep, maxsplit) ==
  IF maxsplit = 0 \/ ~(\E i \in 1..Len(s) : s[i] = sep) THEN <<s>>
  ELSE LET i == CHOOSE j \in 1..Len(s) : s[j] = sep /\ \A k \in 1..(j - 1) : s[k] /= sep
       IN <<SubSeq(s, 1, i - 1)>> \o split(SubSeq(s, i + 1, Len(s)), sep, maxsplit - 1)

\* s[a:b] with 0 <= a <= b, as Python slices: cut to the length of s.
slice(s, a, b) ==
  SubSeq(s, a + 1, IF b < Len(s) THEN b ELSE Len(s))

\* ------------------------------------------------------------- Time codec

DAY_LEN == 24 * 60 * 60
WEEK_LEN == 7 * DAY_LEN
COUNTME_EPOCH == 345600

MONTHIDX ==
  (<<"J", "a", "n">> :> 1) @@ (<<"F", "e", "b">> :> 2) @@ (<<"M", "a", "r">> :> 3) @@
  (<<"A", "p", "r">> :> 4) @@ (<<"M", "a", "y">> :> 5) @@ (<<"J", "u", "n">> :> 6) @@
  (<<"J", "u", "l">> :> 7) @@ (<<"A", "u", "g">> :> 8) @@ (<<"S", "e", "p">> :> 9) @@
  (<<"O", "c", "t">> :> 10) @@ (<<"N", "o", "v">> :> 11) @@ (<<"D", "e", "c">> :> 12)

\* A truncating division, as C's or Java's integer division.
TruncDiv(a, b) == IF a >= 0 THEN a \div b ELSE 0 - ((0 - a) \div b)

weeknum_truncating(ts) == TruncDiv(ts - COUNTME_EPOCH, WEEK_LEN)

\* weeknum(timestamp): int() of an integer is the integer; // is floor division.
weeknum(ts) == (ts - COUNTME_EPOCH) \div WEEK_LEN

\* datetime(year, month, day, hour, minute, second, 0, tz): the constructor's
\* range checks; tz is the UTC offset in minutes.
IsLeap(y) == y % 4 = 0 /\ (y % 100 /= 0 \/ y % 400 = 0)

DaysInMonth(y, m) ==
  IF m = 2 THEN (IF IsLeap(y) THEN 29 ELSE 28)
  ELSE IF m \in {4, 6, 9, 11} THEN 30 ELSE 31

datetime(y, mo, d, h, mi, sec, tz) ==
  IF /\ y \in 1..9999 /\ mo \in 1..12 /\ d >= 1 /\ d <= DaysInMonth(y, mo)
     /\ h \in 0..23 /\ mi \in 0..59 /\ sec \in 0..59
  THEN Ok([year |-> y, month |-> mo, day |-> d, hour |-> h, minute |-> mi,
           second |-> sec, utcoffset |-> tz])
  ELSE Raise("ValueError")

\* timezone(timedelta(minutes=offmin)): the offset must be strictly within a day.
timezone(offmin) ==
  IF offmin > -1440 /\ offmin < 1440 THEN Ok(offmin) ELSE Raise("ValueError")

DaysBeforeYear(y) == (y - 1) * 365 + (y - 1) \div 4 - (y - 1) \div 100 + (y - 1) \div 400

RECURSIVE DaysBeforeMonth(_, _)
DaysBeforeMonth(y, m) ==
  IF m = 1 THEN 0 ELSE DaysBeforeMonth(y, m - 1) + DaysInMonth(y, m - 1)

\* dt.timestamp() of an aware datetime: the seconds since 1970-01-01T00:00:00Z.
Timestamp(dt) ==
  (DaysBeforeYear(dt.year) + DaysBeforeMonth(dt.year, dt.month) + dt.day - 719163) * DAY_LEN
    + dt.hour * 3600 + dt.minute * 60 + dt.second - dt.utcoffset * 60

\* The result of a binary arithmetic on two calls that may raise: the first
\* exception, in evaluation order, wins.
OffMin(hh, mm, negative) ==
  IF hh.exc /= "none" THEN hh
  ELSE IF mm.exc /= "none" THEN mm
  ELSE Ok(IF negative THEN 0 - (60 * hh.val + mm.val) ELSE 60 * hh.val + mm.val)

offset_to_timezone_unsigned(offset) ==
  LET offmin == OffMin(int(PyStr(slice(offset, 1, 3))), int(PyStr(slice(offset, 3, 5))), FALSE)
  IN IF offmin.exc /= "none" THEN offmin ELSE timezone(offmin.val)

offset_to_timezone(offset) ==
  LET offmin == OffMin(int(PyStr(slice(offset, 1, 3))), int(PyStr(slice(offset, 3, 5))),
                       offset /= <<>> /\ offset[1] = "-")
  IN IF offmin.exc /= "none" THEN offmin ELSE timezone(offmin.val)

UTC_OFFSETS == {<<"+", "0", "0", "0", "0">>, <<"-", "0", "0", "0", "0">>}

\* The first exception among a sequence of results, else "none".
FirstExc(rs) ==
  IF \E i \in 1..Len(rs) : rs[i].exc /= "none"
  THEN rs[CHOOSE i \in 1..Len(rs) : rs[i].exc /= "none" /\ \A j \in 1..(i - 1) : rs[j].exc = "none"].exc
  ELSE "none"

parse_logtime(lt) ==
  LET p1 == split(lt, " ", 1)
  IN IF Len(p1) /= 2 THEN Raise("ValueError")
     ELSE
       LET p2 == split(p1[1], ":", 3)
       IN IF Len(p2) /= 4 THEN Raise("ValueError")
          ELSE
            LET p3 == split(p2[1], "/", 2)
            IN IF Len(p3) /= 3 THEN Raise("ValueError")
               ELSE
                 LET off == p1[2]
                     tz == IF off \in UTC_OFFSETS THEN Ok(0) ELSE offset_to_timezone(off)
                     year == int(PyStr(p3[3]))
                     month == IF p3[2] \in DOMAIN MONTHIDX THEN Ok(MONTHIDX[p3[2]])
                              ELSE Raise("KeyError")
                     day == int(PyStr(p3[1]))
                     hour == int(PyStr(p2[2]))
                     minute == int(PyStr(p2[3]))
                     second == int(PyStr(p2[4]))
                     exc == FirstExc(<<tz, year, month, day, hour, minute, second>>)
                 IN IF exc /= "none" THEN Raise(exc)
                    ELSE datetime(year.val, month.val, day.val, hour.val, minute.val,
                                  second.val, tz.val)

\* datetime.strptime(logtime, "%d/%b/%Y:%H:%M:%S %z") on a text of the fixed
\* width DD/Mon/YYYY:HH:MM:SS +HHMM: each directive's pattern, then the
\* constructor.  %b matches the month names in any case.
Lower(c) ==
  CASE c = "J" -> "j" [] c = "F" -> "f" [] c = "M" -> "m" [] c = "A" -> "a"
    [] c = "S" -> "s" [] c = "O" -> "o" [] c = "N" -> "n" [] c = "D" -> "d"
    [] OTHER -> c

LowerStr(s) == [i \in 1..Len(s) |-> Lower(s[i])]

MonthOf(tok) ==
  LET hits == {k \in DOMAIN MONTHIDX : LowerStr(k) = LowerStr(tok)}
  IN IF hits = {} THEN 0 ELSE MONTHIDX[CHOOSE k \in hits : TRUE]

TwoDigits(s, lo, hi) ==
  Len(s) = 2 /\ AllDigits(s) /\ DigitsVal(s) >= lo /\ DigitsVal(s) <= hi

strptime_logtime(lt) ==
  LET d == slice(lt, 0, 2)
      b == slice(lt, 3, 6)
      Y == slice(lt, 7, 11)
      H == slice(lt, 12, 14)
      M == slice(lt, 15, 17)
      S == slice(lt, 18, 20)
      zh == slice(lt, 22, 24)
      zm == slice(lt, 24, 26)
      shape == /\ Len(lt) = 26
               /\ lt[3] = "/" /\ lt[7] = "/" /\ lt[12] = ":" /\ lt[15] = ":"
               /\ lt[18] = ":" /\ lt[21] = " " /\ lt[22] \in {"+", "-"}
               /\ TwoDigits(d, 1, 31) /\ MonthOf(b) /= 0
               /\ Len(Y) = 4 /\ AllDigits(Y)
               /\ TwoDigits(H, 0, 23) /\ TwoDigits(M, 0, 59) /\ TwoDigits(S, 0, 61)
               /\ TwoDigits(zh, 0, 99) /\ TwoDigits(zm, 0, 59)
  IN IF ~shape THEN Raise("ValueError")
     ELSE
       LET gmtoff == 60 * DigitsVal(zh) + DigitsVal(zm)
           tz == timezone(IF lt[22] = "-" THEN 0 - gmtoff ELSE gmtoff)
       IN IF tz.exc /= "none" THEN tz
          ELSE datetime(DigitsVal(Y), MonthOf(b), DigitsVal(d), DigitsVal(H),
                        DigitsVal(M), DigitsVal(S), tz.val)

\* ----------------------------------------------------------- Record model

\* The field names, as str.
F_timestamp == <<"t", "i", "m", "e", "s", "t", "a", "m", "p">>
F_host == <<"h", "o", "s", "t">>
F_repo_tag == <<"r", "e", "p", "o", "_", "t", "a", "g">>
F_repo_arch == <<"r", "e", "p", "o", "_", "a", "r", "c", "h">>
F_os_name == <<"o", "s", "_", "n", "a", "m", "e">>
F_os_version == <<"o", "s", "_", "v", "e", "r", "s", "i", "o", "n">>
F_os_variant == <<"o", "s", "_", "v", "a", "r", "i", "a", "n", "t">>
F_os_arch == <<"o", "s", "_", "a", "r", "c", "h">>
F_countme == <<"c", "o", "u", "n", "t", "m", "e">>
F_identity == <<"i", "d", "e", "n", "t", "i", "t", "y">>
F_time == <<"t", "i", "m", "e">>
F_method == <<"m", "e", "t", "h", "o", "d">>
F_path == <<"p", "a", "t", "h">>
F_query == <<"q", "u", "e", "r", "y">>
F_protocol == <<"p", "r", "o", "t", "o", "c", "o", "l">>
F_status == <<"s", "t", "a", "t", "u", "s">>
F_nbytes == <<"n", "b", "y", "t", "e", "s">>
F_referrer == <<"r", "e", "f", "e", "r", "r", "e", "r">>
F_user_agent == <<"u", "s", "e", "r", "_", "a", "g", "e", "n", "t">>

ItemTuples == {"LogItem", "MirrorItem", "CountmeItem"}

\* itemtuple._fields
Fields(itemtuple) ==
  CASE itemtuple = "LogItem" ->
         <<F_host, F_identity, F_time, F_method, F_path, F_query, F_protocol,
           F_status, F_nbytes, F_referrer, F_user_agent>>
    [] itemtuple = "MirrorItem" -> <<F_timestamp, F_host, F_repo_tag, F_repo_arch>>
    [] itemtuple = "CountmeItem" ->
         <<F_timestamp, F_host, F_os_name, F_os_version, F_os_variant, F_os_arch,
           F_countme, F_repo_tag, F_repo_arch>>

\* itemtuple.__annotations__[fieldname]
Annotation(itemtuple, fieldname) ==
  CASE itemtuple = "LogItem" ->
         (IF fieldname = F_query THEN "Optional[str]"
          ELSE IF fieldname = F_status THEN "int"
          ELSE IF fieldname = F_nbytes THEN "Optional[int]"
          ELSE "str")
    [] itemtuple = "MirrorItem" ->
         (IF fieldname = F_timestamp THEN "int"
          ELSE IF fieldname = F_host THEN "str"
          ELSE "Optional[str]")
    [] itemtuple = "CountmeItem" ->
         (IF fieldname \in {F_timestamp, F_countme} THEN "int" ELSE "str")

\* An item is its class and its values in field order (a NamedTuple).
Item(itemtuple, vals) == [cls |-> itemtuple, vals |-> vals]

FieldIndex(itemtuple, fieldname) ==
  CHOOSE i \in 1..Len(Fields(itemtuple)) : Fields(itemtuple)[i] = fieldname

Field(item, fieldname) == item.vals[FieldIndex(item.cls, fieldname)]

\* -------------------------------------------------------- Query decoding

\* unquote(s) for the escapes the model's alphabet holds: %26 is &, %3D is =.
RECURSIVE unquote(_)
unquote(s) ==
  IF s = <<>> THEN <<>>
  ELSE IF s[1] = "%" /\ Len(s) >= 3 /\ SubSeq(s, 2, 3) = <<"2", "6">>
    THEN <<"&">> \o unquote(SubSeq(s, 4, Len(s)))
  ELSE IF s[1] = "%" /\ Len(s) >= 3 /\ SubSeq(s, 2, 3) = <<"3", "D">>
    THEN <<"=">> \o unquote(SubSeq(s, 4, Len(s)))
  ELSE <<s[1]>> \o unquote(Tail(s))

\* s.replace('+', ' ')
PlusToBlank(s) == [i \in 1..Len(s) |-> IF s[i] = "+" THEN " " ELSE s[i]]

\* The loop of urllib.parse.parse_qsl over qs.split('&'), with its defaults
\* (keep_blank_values=False, strict_parsing=False).
RECURSIVE qsl_pairs(_)
qsl_pairs(name_values) ==
  IF name_values = <<>> THEN <<>>
  ELSE
    LET nv == split(name_values[1], "=", 1)
        rest == qsl_pairs(Tail(name_values))
    IN IF name_values[1] = <<>> THEN rest
       ELSE IF Len(nv) /= 2 THEN rest
       ELSE IF Len(nv[2]) = 0 THEN rest
       ELSE <<<<unquote(PlusToBlank(nv[1])), unquote(PlusToBlank(nv[2]))>>>> \o rest

\* parse_qsl(qs): the ordered (name, value) pairs; None decodes to no pair.
parse_qsl(qs) ==
  IF qs = None THEN <<>> ELSE qsl_pairs(split(qs.s, "&", Len(qs.s)))

\* dict(pairs): the pairs are stored in order, a later one replacing an
\* earlier one of the same key.
RECURSIVE dict(_)
dict(pairs) ==
  IF pairs = <<>> THEN <<>>
  ELSE LET d == dict(SubSeq(pairs, 1, Len(pairs) - 1))
           kv == pairs[Len(pairs)]
       IN [k \in (DOMAIN d) \cup {kv[1]} |-> IF k = kv[1] THEN kv[2] ELSE d[k]]

\* A dict that keeps the first value of a key.
RECURSIVE dict_first(_)
dict_first(pairs) ==
  IF pairs = <<>> THEN <<>>
  ELSE LET d == dict_first(SubSeq(pairs, 1, Len(pairs) - 1))
           kv == pairs[Len(pairs)]
       IN [k \in (DOMAIN d) \cup {kv[1]} |-> IF k \in DOMAIN d THEN d[k] ELSE kv[2]]

parse_querydict_first_wins(querystr) == dict_first(parse_qsl(querystr))

parse_querydict(querystr) == dict(parse_qsl(querystr))

\* query.get(key)
Get(d, key) == IF key \in DOMAIN d THEN PyStr(d[key]) ELSE None

K_repo == <<"r", "e", "p", "o">>
K_arch == <<"a", "r", "c", "h">>
K_countme == <<"c", "o", "u", "n", "t", "m", "e">>

\* ------------------------------------------------------------ Line matcher

\* MirrorMatcher.make_item(match)
MirrorMatcher_make_item(match) ==
  LET dt == parse_logtime(match.time.s)
  IN IF dt.exc /= "none" THEN dt
     ELSE LET query == parse_querydict(match.query)
          IN Ok(Item("MirrorItem",
                     <<PyInt(Timestamp(dt.val)), match.host,
                       Get(query, K_repo), Get(query, K_arch)>>))

\* CountmeMatcher.make_item(match)
CountmeMatcher_make_item(match) ==
  LET dt == parse_logtime(match.time.s)
  IN IF dt.exc /= "none" THEN dt
     ELSE LET query == parse_querydict(match.query)
              countme == int(Get(query, K_countme))
          IN IF countme.exc /= "none" THEN countme
             ELSE Ok(Item("CountmeItem",
                          <<PyInt(Timestamp(dt.val)), match.host,
                            match.os_name, match.os_version, match.os_variant,
                            match.os_arch, PyInt(countme.val),
                            Get(query, K_repo), Get(query, K_arch)>>))

make_item(cls, match) ==
  IF cls = "MirrorMatcher" THEN MirrorMatcher_make_item(match)
  ELSE CountmeMatcher_make_item(match)

\* self.regex.match(line): None, or the named groups.  A line of the model
\* is the line together with what the matcher's pattern makes of it.
regex_match(line) == line.groups

\* One turn of the loop of LogMatcher.iteritems that ends at the first
\* non-matching line instead of skipping it.
iteritems_break ==
  /\ raised = "none"
  /\ linepos < Len(fileobj)
  /\ LET match == regex_match(fileobj[linepos + 1])
     IN IF match = None
        THEN /\ linepos' = Len(fileobj)
             /\ UNCHANGED <<yielded, raised>>
        ELSE LET item == make_item(matcher, match)
             IN /\ linepos' = linepos + 1
                /\ IF item.exc /= "none"
                   THEN raised' = item.exc /\ UNCHANGED yielded
                   ELSE yielded' = Append(yielded, item.val) /\ UNCHANGED raised
  /\ UNCHANGED <<matcher, fileobj, weekvars, timevars, iovars>>

\* One turn of the loop of LogMatcher.iteritems: the next line is read and
\* matched; a match is built into an item and yielded, or the exception of
\* make_item leaves the generator.
iteritems ==
  /\ raised = "none"
  /\ linepos < Len(fileobj)
  /\ LET match == regex_match(fileobj[linepos + 1])
     IN /\ linepos' = linepos + 1
        /\ IF match = None
           THEN UNCHANGED <<yielded, raised>>
           ELSE LET item == make_item(matcher, match)
                IN IF item.exc /= "none"
                   THEN raised' = item.exc /\ UNCHANGED yielded
                   ELSE yielded' = Append(yielded, item.val) /\ UNCHANGED raised
  /\ UNCHANGED <<matcher, fileobj, weekvars, timevars, iovars>>

\* ------------------------------------------------------------ Item writers

\* What csv.writer makes of a value: None is the empty cell, anything else
\* is str(value).  The quoting of a cell is undone by csv.reader, so a row of
\* the file is the sequence of its cells.
CsvCell(v) == IF v = None THEN <<>> ELSE str(v)

CsvRow(vals) == [k |-> "csv", cells |-> [i \in 1..Len(vals) |-> CsvCell(vals[i])]]

\* sep.join(parts)
RECURSIVE join(_, _)
join(sep, parts) ==
  IF parts = <<>> THEN <<>>
  ELSE IF Len(parts) = 1 THEN parts[1]
  ELSE parts[1] \o sep \o join(sep, Tail(parts))

\* AWKWriter._write_row: the str() of each value, joined by the separator.
AwkLine(fieldsep, vals) ==
  [k |-> "awk", text |-> join(fieldsep, [i \in 1..Len(vals) |-> str(vals[i])]) \o <<"\n">>]

\* json.dump(item._asdict(), fp): an object of the field names, an int a
\* number, a str a string, None null.
JsonValue(v) ==
  CASE v.t = "int" -> [j |-> "number", n |-> v.i]
    [] v.t = "str" -> [j |-> "string", chars |-> v.s]
    [] v.t = "None" -> [j |-> "null"]

JsonObject(item) ==
  [k |-> "json",
   obj |-> [f \in {Fields(item.cls)[i] : i \in 1..Len(item.vals)} |->
              JsonValue(Field(item, f))]]

\* SQLiteWriter.SQL_TYPE and _sqltype
SQL_TYPE(typehint) ==
  CASE typehint = "int" -> "INTEGER NOT NULL"
    [] typehint = "str" -> "TEXT NOT NULL"
    [] typehint = "Optional[int]" -> "INTEGER"
    [] typehint = "Optional[str]" -> "TEXT"
    [] OTHER -> "TEXT"

sqltype(itemtuple, fieldname) == SQL_TYPE(Annotation(itemtuple, fieldname))

\* The column definitions of self._create_table.
Coldefs(itemtuple) ==
  [i \in 1..Len(Fields(itemtuple)) |->
     [name |-> Fields(itemtuple)[i], decl |-> sqltype(itemtuple, Fields(itemtuple)[i])]]

\* The database: the connections made to it, the table countme_raw (None,
\* or its columns), its committed rows, its committed indexes (each named
\* by its column), and the open transaction of the writer's connection.
NoTxn == [open |-> FALSE, rows |-> <<>>, indexes |-> {}]
EmptyDb == [cons |-> 0, table |-> None, rows |-> <<>>, indexes |-> {}, txn |-> NoTxn]

ColNames(d) == {d.table.cols[i].name : i \in 1..Len(d.table.cols)}

NotNull(decl) == decl \in {"INTEGER NOT NULL", "TEXT NOT NULL"}

\* The value a column of the declared type stores: INTEGER affinity turns a
\* text of digits into an integer, TEXT affinity turns an integer into text.
Affinity(decl, v) ==
  IF v = None THEN None
  ELSE IF decl \in {"INTEGER NOT NULL", "INTEGER"} /\ v.t = "str" /\ int(v).exc = "none"
    THEN PyInt(int(v).val)
  ELSE IF decl \in {"TEXT NOT NULL", "TEXT"} /\ v.t = "int" THEN PyStr(str(v))
  ELSE v

\* sqlite3.connect(fp.name)
sql_connect(d) == [d EXCEPT !.cons = @ + 1]

\* cur.execute("CREATE TABLE IF NOT EXISTS ..."), run with no transaction
\* open: the statement is its own transaction.
sql_create_table(d, coldefs) ==
  IF d.table = None THEN [d EXCEPT !.table = [cols |-> coldefs]] ELSE d

\* The row an INSERT of the named columns stores, in the table's column
\* order; a column not named is NULL.
StoredRow(d, item) ==
  [i \in 1..Len(d.table.cols) |->
     IF d.table.cols[i].name \in {Fields(item.cls)[j] : j \in 1..Len(item.vals)}
     THEN Affinity(d.table.cols[i].decl, Field(item, d.table.cols[i].name))
     ELSE None]

\* cur.execute("INSERT INTO ... VALUES (?, ...)", item): the sqlite3 module
\* opens a transaction before the INSERT and leaves it open.
sql_insert(d, item) ==
  IF d.table = None THEN [exc |-> "OperationalError", db |-> d]
  ELSE IF \E j \in 1..Len(item.vals) : Fields(item.cls)[j] \notin ColNames(d)
    THEN [exc |-> "OperationalError", db |-> d]
  ELSE
    LET row == StoredRow(d, item)
        opened == [d EXCEPT !.txn.open = TRUE]
    IN IF \E i \in 1..Len(row) : row[i] = None /\ NotNull(d.table.cols[i].decl)
       THEN [exc |-> "IntegrityError", db |-> opened]
       ELSE [exc |-> "none", db |-> [opened EXCEPT !.txn.rows = Append(@, row)]]

\* cur.execute("CREATE INDEX IF NOT EXISTS <timefield>_idx ..."): inside the
\* open transaction if there is one, else its own transaction.
sql_create_index(d, timefield) ==
  IF d.table = None \/ timefield \notin ColNames(d) THEN [exc |-> "OperationalError", db |-> d]
  ELSE IF timefield \in d.indexes \cup d.txn.indexes THEN [exc |-> "none", db |-> d]
  ELSE IF d.txn.open
    THEN [exc |-> "none", db |-> [d EXCEPT !.txn.indexes = @ \cup {timefield}]]
  ELSE [exc |-> "none", db |-> [d EXCEPT !.indexes = @ \cup {timefield}]]

\* con.commit()
sql_commit(d) ==
  [d EXCEPT !.rows = @ \o d.txn.rows, !.indexes = @ \cup d.txn.indexes, !.txn = NoTxn]

\* The writer class make_writer picks for a name, or None.
WriterNames == {"csv", "json", "awk", "sqlite"}

WriterClass_default_csv(name) ==
  CASE name = "json" -> "JSONWriter"
    [] name = "awk" -> "AWKWriter"
    [] name = "sqlite" -> "SQLiteWriter"
    [] OTHER -> "CSVWriter"

WriterClass(name) ==
  CASE name = "csv" -> "CSVWriter"
    [] name = "json" -> "JSONWriter"
    [] name = "awk" -> "AWKWriter"
    [] name = "sqlite" -> "SQLiteWriter"
    [] OTHER -> "None"

\* The samples of the items a caller hands to write_item.
MaxItems == 2

S_h == PyStr(<<"h">>)
S_7 == PyStr(<<"7">>)
S_a == PyStr(<<"a">>)
S_x == PyStr(<<"x">>)
S_ab == PyStr(<<"a", ",", "b">>)

ItemSamples(itemtuple) ==
  CASE itemtuple = "MirrorItem" ->
         {Item("MirrorItem", <<PyInt(86400), S_h, None, S_x>>),
          Item("MirrorItem", <<PyInt(-5), S_7, S_ab, None>>)}
    [] itemtuple = "CountmeItem" ->
         {Item("CountmeItem", <<PyInt(86400), S_h, S_a, S_7, S_a, S_x, PyInt(3), S_a, S_x>>),
          Item("CountmeItem", <<PyInt(0), S_h, S_a, S_7, S_a, S_x, PyInt(1), None, None>>)}
    [] itemtuple = "LogItem" ->
         {Item("LogItem", <<S_h, S_a, S_x, S_a, S_x, None, S_a, PyInt(200), None, S_a, S_x>>),
          Item("LogItem", <<S_h, S_a, S_x, S_a, S_x, S_ab, S_a, PyInt(302), PyInt(7), S_a, S_x>>)}

\* The names and the time fields a caller passes to make_writer.
NameSamples == WriterNames \cup {"xml", "CSV"}
TimefieldSamples == {F_timestamp, F_time}

TAB == <<"\t">>

\* make_writer(name, fp, itemtuple, timefield=...): the class is picked by
\* name, then ItemWriter.__init__ runs: the assertion on the time field,
\* then the class's _get_writer (SQLiteWriter connects to fp.name).
make_writer(name, itemtuple, timefield) ==
  /\ wstate = "start" /\ writer = None /\ reader = None /\ rstate = "closed"
  /\ fp.lines = <<>>
  /\ wargs' = [name |-> name, itemtuple |-> itemtuple, timefield |-> timefield]
  /\ LET cls == WriterClass(name)
     IN IF cls = "None"
        THEN /\ werr' = "ValueError" /\ wstate' = "failed"
             /\ UNCHANGED <<writer, db>>
        ELSE IF \A i \in 1..Len(Fields(itemtuple)) : Fields(itemtuple)[i] /= timefield
        THEN /\ werr' = "AssertionError" /\ wstate' = "failed"
             /\ UNCHANGED <<writer, db>>
        ELSE /\ writer' = [cls |-> cls, itemtuple |-> itemtuple, timefield |-> timefield]
             /\ wstate' = "made"
             /\ db' = IF cls = "SQLiteWriter" THEN sql_connect(db) ELSE db
             /\ UNCHANGED werr
  /\ UNCHANGED <<fp, sqllog, written, reader, rstate, rerr, readitems>>
  /\ UNCHANGED <<weekvars, timevars, matchvars>>

FieldStrs(itemtuple) == [i \in 1..Len(Fields(itemtuple)) |-> PyStr(Fields(itemtuple)[i])]

\* writer.write_header()
write_header ==
  /\ wstate = "made"
  /\ wstate' = "header"
  /\ fp' = CASE writer.cls = "CSVWriter" ->
                  [fp EXCEPT !.lines = Append(@, CsvRow(FieldStrs(writer.itemtuple)))]
             [] writer.cls = "AWKWriter" ->
                  [fp EXCEPT !.lines = Append(@, AwkLine(TAB, FieldStrs(writer.itemtuple)))]
             [] OTHER -> fp
  /\ db' = IF writer.cls = "SQLiteWriter"
           THEN sql_create_table(db, Coldefs(writer.itemtuple)) ELSE db
  /\ sqllog' = IF writer.cls = "SQLiteWriter" THEN Append(sqllog, "CREATE TABLE") ELSE sqllog
  /\ UNCHANGED <<writer, werr, written, wargs, reader, rstate, rerr, readitems>>
  /\ UNCHANGED <<weekvars, timevars, matchvars>>

\* SQLiteWriter.write_item that commits each row as it is inserted.
SQLiteWriter_write_item_autocommit(d, item) ==
  LET r == sql_insert(d, item)
  IN [exc |-> r.exc, db |-> sql_commit(r.db), log |-> <<"INSERT", "COMMIT">>]

\* SQLiteWriter.write_item(item)
SQLiteWriter_write_item(d, item) ==
  LET r == sql_insert(d, item)
  IN [exc |-> r.exc, db |-> r.db, log |-> <<"INSERT">>]

\* writer.write_item(item)
write_item(item) ==
  /\ wstate \in {"header", "items"}
  /\ Len(written) < MaxItems
  /\ written' = Append(written, item)
  /\ fp' = CASE writer.cls = "CSVWriter" -> [fp EXCEPT !.lines = Append(@, CsvRow(item.vals))]
             [] writer.cls = "AWKWriter" -> [fp EXCEPT !.lines = Append(@, AwkLine(TAB, item.vals))]
             [] writer.cls = "JSONWriter" -> [fp EXCEPT !.lines = Append(@, JsonObject(item))]
             [] OTHER -> fp
  /\ IF writer.cls = "SQLiteWriter"
     THEN LET r == SQLiteWriter_write_item(db, item)
          IN /\ db' = r.db
             /\ sqllog' = sqllog \o r.log
             /\ werr' = r.exc
             /\ wstate' = IF r.exc = "none" THEN "items" ELSE "failed"
     ELSE /\ wstate' = "items"
          /\ UNCHANGED <<db, sqllog, werr>>
  /\ UNCHANGED <<writer, wargs, reader, rstate, rerr, readitems>>
  /\ UNCHANGED <<weekvars, timevars, matchvars>>

\* writer.write_footer(): SQLiteWriter creates the time index, then commits.
write_footer ==
  /\ wstate \in {"header", "items"}
  /\ IF writer.cls = "SQLiteWriter"
     THEN LET r == sql_create_index(db, writer.timefield)
          IN IF r.exc /= "none"
             THEN /\ db' = r.db
                  /\ sqllog' = Append(sqllog, "CREATE INDEX")
                  /\ werr' = r.exc
                  /\ wstate' = "failed"
             ELSE /\ db' = sql_commit(r.db)
                  /\ sqllog' = sqllog \o <<"CREATE INDEX", "COMMIT">>
                  /\ wstate' = "footer"
                  /\ UNCHANGED werr
     ELSE /\ wstate' = "footer"
          /\ UNCHANGED <<db, sqllog, werr>>
  /\ UNCHANGED <<fp, writer, written, wargs, reader, rstate, rerr, readitems>>
  /\ UNCHANGED <<weekvars, timevars, matchvars>>

\* ------------------------------------------------------------ Item readers

\* name.isnumeric(): a non-empty str of numeric characters.
isnumeric(name) == name /= <<>> /\ AllDigits(name)

\* guessreader(fp): the reader class by the suffix of fp.name, or None.
guessreader(f) ==
  IF f.name = ".csv" THEN "CSVReader"
  ELSE IF f.name = ".db" THEN "SQLiteReader"
  ELSE "None"

\* CSVReader._get_reader: the first row of the file is taken as the field
\* names; next() of an exhausted csv.reader raises StopIteration, and the
\* branch for a numeric field name reads the undefined name `fields`.
CSVReader_get_reader(f) ==
  IF f.lines = <<>> THEN [exc |-> "StopIteration", filefields |-> None, pos |-> 0]
  ELSE LET filefields == f.lines[1].cells
       IN IF \E i \in 1..Len(filefields) : isnumeric(filefields[i])
          THEN [exc |-> "NameError", filefields |-> PyTuple(filefields), pos |-> 1]
          ELSE [exc |-> "none", filefields |-> PyTuple(filefields), pos |-> 1]

\* SQLiteReader._get_reader: the column names PRAGMA table_info lists for
\* the table, none when the table is absent.
SQLiteReader_get_reader(d) ==
  [exc |-> "none",
   filefields |-> IF d.table = None THEN PyTuple(<<>>)
                  ELSE PyTuple([i \in 1..Len(d.table.cols) |-> d.table.cols[i].name]),
   pos |-> 0]

\* An ItemReader.__init__ that compares the field names as sets.
ItemReader_init_unordered(got, itemfields) ==
  IF got.exc /= "none" THEN got.exc
  ELSE IF got.filefields = None \/ got.filefields.v = <<>>
    THEN "ReaderError: no field names found"
  ELSE IF {got.filefields.v[i] : i \in 1..Len(got.filefields.v)}
            /= {itemfields[i] : i \in 1..Len(itemfields)}
    THEN "ReaderError: field mismatch"
  ELSE "none"

\* ItemReader.__init__ after _get_reader returned `got`: the exception it
\* raises, or "none".
ItemReader_init(got, itemfields) ==
  IF got.exc /= "none" THEN got.exc
  ELSE IF got.filefields = None \/ got.filefields.v = <<>>
    THEN "ReaderError: no field names found"
  ELSE IF got.filefields /= PyTuple(itemfields) THEN "ReaderError: field mismatch"
  ELSE "none"

\* The kinds of the lines of the text resource.
OnlyCsvLines(f) == \A i \in 1..Len(f.lines) : f.lines[i].k = "csv"

\* autoreader(fp, itemtuple): the class guessreader names is constructed;
\* calling None raises TypeError.
autoreader(itemtuple) ==
  /\ reader = None /\ rstate = "closed"
  /\ wstate \in {"start", "footer"}
  /\ OnlyCsvLines(fp)
  /\ LET cls == guessreader(fp)
     IN IF cls = "None"
        THEN /\ rerr' = "TypeError" /\ rstate' = "failed"
             /\ UNCHANGED <<reader, db>>
        ELSE LET got == IF cls = "CSVReader" THEN CSVReader_get_reader(fp)
                        ELSE SQLiteReader_get_reader(db)
                 exc == ItemReader_init(got, Fields(itemtuple))
             IN /\ reader' = [cls |-> cls, itemtuple |-> itemtuple,
                              filefields |-> got.filefields, pos |-> got.pos]
                /\ rerr' = exc
                /\ rstate' = IF exc = "none" THEN "open" ELSE "failed"
                /\ db' = IF cls = "SQLiteReader" THEN sql_connect(db) ELSE db
  /\ UNCHANGED <<fp, writer, wstate, werr, sqllog, written, wargs, readitems>>
  /\ UNCHANGED <<weekvars, timevars, matchvars>>

\* The rows _iter_rows produces: the remaining rows of the csv.reader, or
\* the rows SELECT <fields> FROM <table> finds committed.
SelectRow(d, row, itemfields) ==
  [i \in 1..Len(itemfields) |->
     row[CHOOSE c \in 1..Len(d.table.cols) : d.table.cols[c].name = itemfields[i]]]

iter_rows(r) ==
  IF r.cls = "CSVReader"
  THEN [i \in 1..Len(fp.lines) |-> [j \in 1..Len(fp.lines[i].cells) |-> PyStr(fp.lines[i].cells[j])]]
  ELSE [i \in 1..Len(db.rows) |-> SelectRow(db, db.rows[i], Fields(r.itemtuple))]

\* One turn of ItemReader.__iter__: the next row is made into an item by
\* itemtuple._make, which raises TypeError for a row of another length.
reader_iter ==
  /\ rstate = "open"
  /\ LET rows == iter_rows(reader)
     IN IF reader.pos >= Len(rows)
        THEN /\ rstate' = "done"
             /\ UNCHANGED <<reader, rerr, readitems>>
        ELSE LET row == rows[reader.pos + 1]
             IN /\ reader' = [reader EXCEPT !.pos = @ + 1]
                /\ IF Len(row) /= Len(Fields(reader.itemtuple))
                   THEN /\ rerr' = "TypeError" /\ rstate' = "failed"
                        /\ UNCHANGED readitems
                   ELSE /\ readitems' = Append(readitems, Item(reader.itemtuple, row))
                        /\ UNCHANGED <<rerr, rstate>>
  /\ UNCHANGED <<fp, db, writer, wstate, werr, sqllog, written, wargs>>
  /\ UNCHANGED <<weekvars, timevars, matchvars>>

\* ------------------------------------------------- Specifications: idle parts

WeekIdle == timestamp = <<>> /\ week = <<>>
TimeIdle == logtime = <<>> /\ fast = None /\ slow = None
MatchIdle ==
  matcher = "None" /\ fileobj = <<>> /\ linepos = 0 /\ yielded = <<>> /\ raised = "none"
IOIdle ==
  /\ fp = [name |-> ".txt", lines |-> <<>>] /\ db = EmptyDb
  /\ writer = None /\ wstate = "start" /\ werr = "none" /\ sqllog = <<>>
  /\ written = <<>> /\ wargs = None
  /\ reader = None /\ rstate = "closed" /\ rerr = "none" /\ readitems = <<>>

\* ------------------------------------------------------ weeknum, applied

MaxWeeks == 2

\* Timestamps around the week boundaries on both sides of COUNTME_EPOCH,
\* negative ones included.
TimestampSamples ==
  {COUNTME_EPOCH + w * WEEK_LEN + d :
     w \in (0 - MaxWeeks)..MaxWeeks, d \in {0, 1, 302400, WEEK_LEN - 1}}

\* weeknum is applied to the arguments drawn: e1, e2 and e1 shifted by k weeks.
CallWeeknum ==
  /\ week = <<>>
  /\ week' = <<weeknum(timestamp[1]), weeknum(timestamp[2]),
               weeknum(timestamp[1] + WEEK_LEN * timestamp[3])>>
  /\ UNCHANGED <<timestamp, timevars, matchvars, iovars>>

InitWeek ==
  /\ timestamp \in TimestampSamples \X TimestampSamples \X ((0 - MaxWeeks)..MaxWeeks)
  /\ week = <<>>
  /\ TimeIdle /\ MatchIdle /\ IOIdle

NextWeek == CallWeeknum

SpecWeek == InitWeek /\ [][NextWeek]_vars

\* ------------------------------------------------ parse_logtime, applied

Cat(parts) == join(<<>>, parts)

DaySamples == {<<"0", "1">>, <<"2", "9">>, <<"3", "1">>}
MonthSamples == {<<"J", "a", "n">>, <<"F", "e", "b">>, <<"D", "e", "c">>, <<"m", "a", "r">>}
YearSamples == {<<"1", "9", "7", "0">>, <<"2", "0", "2", "0">>}
ClockSamples ==
  {<<"0", "0", ":", "0", "0", ":", "0", "0">>, <<"1", "6", ":", "0", "4", ":", "2", "8">>,
   <<"2", "3", ":", "5", "9", ":", "5", "9">>, <<"2", "4", ":", "0", "0", ":", "0", "0">>}
OffsetSamples ==
  {<<"+", "0", "0", "0", "0">>, <<"-", "0", "0", "0", "0">>, <<"-", "0", "4", "3", "0">>,
   <<"+", "0", "5", "3", "0">>, <<"+", "2", "3", "5", "9">>, <<"-", "2", "3", "5", "9">>,
   <<"+", "2", "4", "0", "0">>, <<"-", "0", "0", "6", "0">>}

LogtimeSamples ==
  {Cat(<<d, <<"/">>, b, <<"/">>, Y, <<":">>, c, <<" ">>, z>>) :
     d \in DaySamples, b \in MonthSamples, Y \in YearSamples, c \in ClockSamples,
     z \in OffsetSamples}

\* Both parsers are applied to the text drawn.
ParseLogtime ==
  /\ fast = None
  /\ fast' = parse_logtime(logtime)
  /\ slow' = strptime_logtime(logtime)
  /\ UNCHANGED <<logtime, weekvars, matchvars, iovars>>

InitTime ==
  /\ logtime \in LogtimeSamples /\ fast = None /\ slow = None
  /\ WeekIdle /\ MatchIdle /\ IOIdle

NextTime == ParseLogtime

SpecTime == InitTime /\ [][NextTime]_vars


\* ----------------------------------------------------- LogMatcher, applied

MaxLines == 3

T_utc ==
  <<"2", "9", "/", "M", "a", "r", "/", "2", "0", "2", "0", ":", "1", "6", ":", "0", "4",
    ":", "2", "8", " ", "+", "0", "0", "0", "0">>
T_east ==
  <<"0", "1", "/", "J", "a", "n", "/", "1", "9", "7", "0", ":", "0", "0", ":", "3", "0",
    ":", "0", "0", " ", "+", "0", "1", "0", "0">>
T_bad ==
  <<"2", "9", "/", "m", "a", "r", "/", "2", "0", "2", "0", ":", "1", "6", ":", "0", "4",
    ":", "2", "8", " ", "+", "0", "0", "0", "0">>

\* repo=a&repo=b&arch=x&countme=3&countme=4
Q_dup ==
  PyStr(Cat(<<K_repo, <<"=", "a", "&">>, K_repo, <<"=", "b", "&">>, K_arch, <<"=", "x", "&">>,
              K_countme, <<"=", "3", "&">>, K_countme, <<"=", "4">>>>))
\* countme=1
Q_only == PyStr(Cat(<<K_countme, <<"=", "1">>>>))
\* repo=a&countme=x
Q_bad == PyStr(Cat(<<K_repo, <<"=", "a", "&">>, K_countme, <<"=", "x">>>>))
\* repo=a&arch=x
Q_missing == PyStr(Cat(<<K_repo, <<"=", "a", "&">>, K_arch, <<"=", "x">>>>))
\* arch=x&repo=b&repo=&countme=+4
Q_blank ==
  PyStr(Cat(<<K_arch, <<"=", "x", "&">>, K_repo, <<"=", "b", "&">>, K_repo, <<"=", "&">>,
              K_countme, <<"=", "+", "4">>>>))
\* repo=a%26b&countme=2
Q_esc == PyStr(Cat(<<K_repo, <<"=", "a", "%", "2", "6", "b", "&">>, K_countme, <<"=", "2">>>>))

NoMatch == [groups |-> None]
Matching(time, query) ==
  [groups |-> [host |-> S_h, time |-> PyStr(time), query |-> query, os_name |-> S_a,
               os_version |-> S_7, os_variant |-> S_a, os_arch |-> S_x]]

LineSamples ==
  {NoMatch, Matching(T_utc, Q_dup), Matching(T_east, Q_only), Matching(T_utc, Q_bad),
   Matching(T_utc, Q_missing), Matching(T_utc, None), Matching(T_east, Q_blank),
   Matching(T_utc, Q_esc), Matching(T_bad, Q_dup)}

LogFiles == UNION {[1..n -> LineSamples] : n \in 0..MaxLines}

InitMatch ==
  /\ matcher \in {"MirrorMatcher", "CountmeMatcher"}
  /\ fileobj \in LogFiles
  /\ linepos = 0 /\ yielded = <<>> /\ raised = "none"
  /\ WeekIdle /\ TimeIdle /\ IOIdle

NextMatch == iteritems

SpecMatch == InitMatch /\ [][NextMatch]_vars

\* ------------------------------------------- Writers and readers, applied

\* The files a reader may be opened on: written by a CSVWriter, or not.
Header(itemtuple) == CsvRow(FieldStrs(itemtuple))
MirrorRow == CsvRow(<<PyInt(86400), S_h, None, S_x>>)
BlankRow == [k |-> "csv", cells |-> <<>>]
Cells(cells) == [k |-> "csv", cells |-> cells]

CsvFiles ==
  {<<>>,
   <<BlankRow>>,
   <<BlankRow, Header("MirrorItem")>>,
   <<Header("MirrorItem")>>,
   <<Header("MirrorItem"), MirrorRow, MirrorRow>>,
   <<Header("MirrorItem"), Cells(<<<<"1">>, <<"h">>>>)>>,
   <<Cells(<<F_host, F_timestamp, F_repo_tag, F_repo_arch>>), MirrorRow>>,
   <<Cells(<<F_timestamp, F_host, F_repo_tag>>), MirrorRow>>,
   <<Cells(<<F_timestamp, F_host, F_repo_tag, F_repo_arch, F_countme>>), MirrorRow>>,
   <<Cells(<<F_timestamp, F_host, F_repo_tag, <<"5">>>>), MirrorRow>>,
   <<MirrorRow, MirrorRow>>}

\* The databases behind a .db name: none yet, or the table of an earlier
\* run of a writer (with a row and the index, or with its columns in
\* another order).
OldRow == <<PyInt(1), S_h, None, None>>
Permuted(cols) == <<cols[2], cols[1], cols[3], cols[4]>>

InitialDbs ==
  {EmptyDb,
   [EmptyDb EXCEPT !.table = [cols |-> Coldefs("MirrorItem")]],
   [EmptyDb EXCEPT !.table = [cols |-> Coldefs("MirrorItem")], !.rows = <<OldRow>>,
                   !.indexes = {F_timestamp}],
   [EmptyDb EXCEPT !.table = [cols |-> Permuted(Coldefs("MirrorItem"))],
                   !.rows = <<Permuted(OldRow)>>]}

Init ==
  /\ \/ /\ fp \in {[name |-> ".csv", lines |-> l] : l \in CsvFiles}
        /\ db = EmptyDb
     \/ /\ fp = [name |-> ".db", lines |-> <<>>]
        /\ db \in InitialDbs
     \/ /\ fp = [name |-> ".txt", lines |-> <<>>]
        /\ db = EmptyDb
  /\ writer = None /\ wstate = "start" /\ werr = "none" /\ sqllog = <<>>
  /\ written = <<>> /\ wargs = None
  /\ reader = None /\ rstate = "closed" /\ rerr = "none" /\ readitems = <<>>
  /\ WeekIdle /\ TimeIdle /\ MatchIdle

Next ==
  \/ \E name \in NameSamples, itemtuple \in ItemTuples, timefield \in TimefieldSamples :
       make_writer(name, itemtuple, timefield)
  \/ write_header
  \/ /\ wstate \in {"header", "items"}
     /\ \E item \in ItemSamples(writer.itemtuple) : write_item(item)
  \/ write_footer
  \/ \E itemtuple \in ItemTuples : autoreader(itemtuple)
  \/ reader_iter

Spec == Init /\ [][Next]_vars

\* ------------------------------------------------------------ Claims: time

\* C8: for every integer timestamp e, negative ones included, weeknum(e) is
\* the floor of (e - 345600) / 604800: WEEK_LEN * weeknum(e) is at most
\* e - COUNTME_EPOCH and less than a week below it; weeknum is non-decreasing;
\* and a shift by k weeks moves the week number by k.
C8_WeeknumFloor ==
  week /= <<>> =>
    LET e1 == timestamp[1]
        e2 == timestamp[2]
        k == timestamp[3]
    IN /\ WEEK_LEN * week[1] <= e1 - COUNTME_EPOCH
       /\ e1 - COUNTME_EPOCH < WEEK_LEN * (week[1] + 1)
       /\ (e1 <= e2 => week[1] <= week[2])
       /\ week[3] = week[1] + k

\* A timestamp before 1970, inside a week, shifted by a non-zero number of
\* weeks, has been bucketed.
C8_Witness ==
  /\ week /= <<>>
  /\ timestamp[1] < 0
  /\ (timestamp[1] - COUNTME_EPOCH) % WEEK_LEN /= 0
  /\ timestamp[3] < 0
  /\ timestamp[1] < timestamp[2]
  /\ week[1] < 0

\* The accepted form DD/Mon/YYYY:HH:MM:SS +-HHMM: the digits and delimiters
\* in their places, a month token of MONTHIDX, a sign, offset minutes of at
\* most 59.
IsAcceptedForm(lt) ==
  /\ Len(lt) = 26
  /\ \A i \in {1, 2, 8, 9, 10, 11, 13, 14, 16, 17, 19, 20, 23, 24, 25, 26} : lt[i] \in Digits
  /\ lt[3] = "/" /\ lt[7] = "/" /\ lt[12] = ":" /\ lt[15] = ":" /\ lt[18] = ":"
  /\ lt[21] = " " /\ lt[22] \in {"+", "-"}
  /\ SubSeq(lt, 4, 6) \in DOMAIN MONTHIDX
  /\ DigitsVal(SubSeq(lt, 25, 26)) <= 59

\* C9: on a text of the accepted form parse_logtime and strptime_logtime
\* agree: both raise the same exception, or both return a datetime of the
\* same instant and the same UTC offset; +0000 and -0000 both give UTC.
C9_ParseEqualsStrptime ==
  (fast /= None /\ IsAcceptedForm(logtime)) =>
    /\ fast.exc = slow.exc
    /\ fast.exc = "none" =>
         /\ Timestamp(fast.val) = Timestamp(slow.val)
         /\ fast.val.utcoffset = slow.val.utcoffset
         /\ fast.val = slow.val
         /\ SubSeq(logtime, 22, 26) \in UTC_OFFSETS => fast.val.utcoffset = 0

\* A text of the accepted form with a negative offset has been parsed by both.
C9_Witness ==
  /\ fast /= None /\ IsAcceptedForm(logtime)
  /\ fast.exc = "none" /\ slow.exc = "none"
  /\ fast.val.utcoffset = -270
  /\ Timestamp(fast.val) = 1609274068

\* --------------------------------------------------------- Claims: matcher

Matched(line) == regex_match(line) /= None

\* The matching lines among the first n lines, in order.
MatchingPrefix(n) == SelectSeq(SubSeq(fileobj, 1, n), Matched)

ItemsOf(lines) == [i \in 1..Len(lines) |-> make_item(matcher, regex_match(lines[i])).val]

\* C4: no line that does not match makes the iteration raise; it is skipped
\* and the iteration goes on with the next line; the items yielded are one
\* per matching line read, in the order of the lines.
C4_SkipNonMatching ==
  /\ raised = "none" => yielded = ItemsOf(MatchingPrefix(linepos))
  /\ raised /= "none" =>
       /\ linepos >= 1
       /\ Matched(fileobj[linepos])
       /\ make_item(matcher, regex_match(fileobj[linepos])).exc = raised
       /\ yielded = ItemsOf(MatchingPrefix(linepos - 1))

\* The whole of a file was iterated in which the one matching line stands
\* between two lines that do not match.
C4_Witness ==
  /\ matcher /= "None" /\ raised = "none" /\ linepos = Len(fileobj)
  /\ Len(fileobj) = 3
  /\ ~Matched(fileobj[1]) /\ Matched(fileobj[2]) /\ ~Matched(fileobj[3])
  /\ Len(yielded) = 1

\* The countme value of a match is missing or is no integer.
CountmeUnusable(match) ==
  /\ parse_logtime(match.time.s).exc = "none"
  /\ LET v == Get(parse_querydict(match.query), K_countme)
     IN v = None \/ int(v).exc /= "none"

\* C5: a line that matches the countme rule with a countme value missing or
\* not an integer fails with one single kind of error: means the kind raised
\* for it is the kind raised for every other such match; no CountmeItem is
\* yielded for it and the line is not skipped.
C5_SingleErrorKind ==
  (/\ matcher = "CountmeMatcher" /\ linepos >= 1
   /\ Matched(fileobj[linepos])
   /\ CountmeUnusable(regex_match(fileobj[linepos]))) =>
    /\ raised /= "none"
    /\ yielded = ItemsOf(MatchingPrefix(linepos - 1))
    /\ \A l \in LineSamples :
         (Matched(l) /\ CountmeUnusable(regex_match(l))) =>
           CountmeMatcher_make_item(regex_match(l)).exc = raised

\* The value of the last pair of the key, or None.
LastValue(pairs, key) ==
  IF \E i \in 1..Len(pairs) : pairs[i][1] = key
  THEN PyStr(pairs[CHOOSE i \in 1..Len(pairs) :
                     pairs[i][1] = key /\ \A j \in (i + 1)..Len(pairs) : pairs[j][1] /= key][2])
  ELSE None

\* C10: parse_querydict binds every key of the pairs parse_qsl decodes to
\* the value of its last pair, and the items of both matchers take repo_tag,
\* repo_arch and countme from it: the last value of a repeated key, None
\* for an absent repo or arch.
C10_LastValueWins ==
  /\ \A n \in 1..Len(fileobj) :
       Matched(fileobj[n]) =>
         LET pairs == parse_qsl(regex_match(fileobj[n]).query)
             d == parse_querydict(regex_match(fileobj[n]).query)
         IN /\ DOMAIN d = {pairs[i][1] : i \in 1..Len(pairs)}
            /\ \A k \in DOMAIN d : PyStr(d[k]) = LastValue(pairs, k)
  /\ \A i \in 1..Len(yielded) :
       LET pairs == parse_qsl(regex_match(SelectSeq(fileobj, Matched)[i]).query)
           item == yielded[i]
       IN /\ Field(item, F_repo_tag) = LastValue(pairs, K_repo)
          /\ Field(item, F_repo_arch) = LastValue(pairs, K_arch)
          /\ item.cls = "CountmeItem" =>
               Field(item, F_countme) = PyInt(int(LastValue(pairs, K_countme)).val)
          /\ item.cls = (IF matcher = "MirrorMatcher" THEN "MirrorItem" ELSE "CountmeItem")

\* Both matchers have yielded an item of a query that repeats repo and
\* countme, and an item of a query without repo and arch.
C10_Witness ==
  /\ Len(yielded) = 2
  /\ matcher = "CountmeMatcher"
  /\ regex_match(fileobj[1]).query = Q_dup
  /\ regex_match(fileobj[2]).query = Q_only
  /\ Field(yielded[1], F_repo_tag) = PyStr(<<"b">>)
  /\ Field(yielded[1], F_countme) = PyInt(4)
  /\ Field(yielded[2], F_repo_tag) = None /\ Field(yielded[2], F_repo_arch) = None

\* ---------------------------------------------- Claims: writers and readers

\* The rows a SQLiteWriter's items are stored as.
StoredRows(items) == [i \in 1..Len(items) |-> StoredRow(db, items[i])]

\* A writer and the reader that matches it.
Matching_reader(w, r) ==
  \/ w.cls = "CSVWriter" /\ r.cls = "CSVReader"
  \/ w.cls = "SQLiteWriter" /\ r.cls = "SQLiteReader"

\* C1: the items read back by the matching reader, after write_header, a
\* write_item for each item and write_footer into a resource that held
\* nothing, are the items written, each field with its value and type.
C1_RoundTrip ==
  (/\ wstate = "footer" /\ rstate = "done" /\ reader /= None
   /\ Matching_reader(writer, reader)
   /\ reader.itemtuple = writer.itemtuple
   /\ writer.cls = "SQLiteWriter" => Len(db.rows) = Len(written)) =>
    readitems = written

\* The part of C1 that holds of the code: the round trip through SQLite.
C1_RoundTripSQLite ==
  (/\ wstate = "footer" /\ rstate = "done" /\ reader /= None
   /\ writer.cls = "SQLiteWriter" /\ reader.cls = "SQLiteReader"
   /\ reader.itemtuple = writer.itemtuple
   /\ Len(db.rows) = Len(written)) =>
    readitems = written

\* The field names the reader found in the resource differ from the
\* declared ones.
FieldsDiffer(r) == r.filefields /= PyTuple(Fields(r.itemtuple))

\* The rows of data the reader's construction has read.
DataRowsRead(r) == IF r.cls = "CSVReader" /\ r.pos >= 1 THEN r.pos - 1 ELSE r.pos

\* C2, as stated: a reader opens only on field names equal, as a sequence,
\* to the declared ones; on any difference the construction fails with
\* ReaderError 'field mismatch', before a row of data is read and with no
\* item produced.
C2_AnyDifferenceIsMismatch ==
  reader /= None =>
    /\ (rstate \in {"open", "done"} \/ readitems /= <<>>) => ~FieldsDiffer(reader)
    /\ FieldsDiffer(reader) =>
         /\ rerr = "ReaderError: field mismatch"
         /\ rstate = "failed" /\ readitems = <<>> /\ DataRowsRead(reader) = 0

\* The first row of a CSV file holds a numeric name; CSVReader takes this
\* for a missing header (C3), not for a mismatch.
NumericHeader(r) ==
  /\ r.cls = "CSVReader" /\ r.filefields /= None
  /\ \E i \in 1..Len(r.filefields.v) : isnumeric(r.filefields.v[i])

\* C2, amended: a reader opens only on field names equal, as a sequence, to
\* the declared ones; a difference in which field names were found (and,
\* for a CSVReader, none of them numeric) fails with ReaderError 'field
\* mismatch'; the reader that found an empty sequence of names fails with
\* ReaderError 'no field names found'; either way before a row of data is
\* read and with no item produced.
C2_MismatchWhenFieldsFound ==
  reader /= None =>
    /\ (rstate \in {"open", "done"} \/ readitems /= <<>>) => ~FieldsDiffer(reader)
    /\ (/\ FieldsDiffer(reader) /\ reader.filefields /= None
        /\ reader.filefields /= PyTuple(<<>>) /\ ~NumericHeader(reader)) =>
         /\ rerr = "ReaderError: field mismatch"
         /\ rstate = "failed" /\ readitems = <<>> /\ DataRowsRead(reader) = 0
    /\ reader.filefields = PyTuple(<<>>) =>
         /\ rerr = "ReaderError: no field names found"
         /\ rstate = "failed" /\ readitems = <<>> /\ DataRowsRead(reader) = 0

\* A reader was constructed on the declared names in another order.
C2_Witness ==
  /\ reader /= None /\ reader.filefields /= None
  /\ FieldsDiffer(reader)
  /\ {reader.filefields.v[i] : i \in 1..Len(reader.filefields.v)}
       = {Fields(reader.itemtuple)[i] : i \in 1..Len(Fields(reader.itemtuple))}
  /\ rerr = "ReaderError: field mismatch"
  /\ rstate = "failed"

\* The resource gives the reader no field names: an empty CSV file, an
\* empty first row, a first row that is no header, or no table.
NoFieldNames(r) ==
  IF r.cls = "CSVReader"
  THEN \/ fp.lines = <<>>
       \/ fp.lines[1].cells = <<>>
       \/ \E i \in 1..Len(fp.lines[1].cells) : isnumeric(fp.lines[1].cells[i])
  ELSE db.table = None

\* C3: a reader that can find no field names fails with the schema-missing
\* ReaderError ('no field names found' or 'header bad/missing') and with
\* nothing else, before a row is read.
C3_SchemaMissing ==
  (reader /= None /\ NoFieldNames(reader)) =>
    /\ rerr \in {"ReaderError: no field names found", "ReaderError: header bad/missing"}
    /\ rstate = "failed" /\ readitems = <<>> /\ DataRowsRead(reader) = 0

\* The class each name stands for.
NamedWriter ==
  [csv |-> "CSVWriter", json |-> "JSONWriter", awk |-> "AWKWriter", sqlite |-> "SQLiteWriter"]

\* C6: make_writer with a name other than csv, json, awk, sqlite raises the
\* unknown-writer ValueError with no writer made, nothing written to the
\* resource and no connection to it; with one of the four names the writer
\* made is of the class of that name.
C6_MakeWriterDispatch ==
  wargs /= None =>
    /\ wargs.name \notin {"csv", "json", "awk", "sqlite"} =>
         /\ werr = "ValueError" /\ wstate = "failed" /\ writer = None
         /\ fp.lines = <<>> /\ db.cons = 0 /\ sqllog = <<>>
    /\ wargs.name \in {"csv", "json", "awk", "sqlite"} =>
         /\ werr /= "ValueError"
         /\ writer /= None =>
              /\ writer.cls = NamedWriter[wargs.name]
              /\ writer.itemtuple = wargs.itemtuple
              /\ reader = None => (writer.cls = "SQLiteWriter" <=> db.cons = 1)
         /\ writer = None => werr = "AssertionError"

\* make_writer was called with an unknown name on a database that exists.
C6_Witness ==
  /\ wargs /= None /\ wargs.name = "xml"
  /\ werr = "ValueError" /\ writer = None
  /\ fp.name = ".db" /\ db.table /= None /\ db.cons = 0

Count(log, stmt) == Cardinality({i \in 1..Len(log) : log[i] = stmt})

\* C7: a SQLiteWriter's write_header creates the table if it is absent;
\* each write_item runs one INSERT and neither creates the index nor
\* commits; before write_footer the writer has created no index and no
\* inserted row is committed; write_footer creates the index on the time
\* field and commits, after which the index exists and every inserted row
\* is committed.
C7_IndexAndCommitInFooter ==
  (writer /= None /\ writer.cls = "SQLiteWriter") =>
    /\ wstate = "made" => sqllog = <<>>
    /\ wstate \in {"header", "items", "footer"} =>
         /\ sqllog[1] = "CREATE TABLE" /\ Count(sqllog, "CREATE TABLE") = 1
         /\ db.table /= None
         /\ Count(sqllog, "INSERT") = Len(written)
    /\ wstate \in {"made", "header", "items"} =>
         /\ Count(sqllog, "CREATE INDEX") = 0 /\ Count(sqllog, "COMMIT") = 0
         /\ db.txn.indexes = {}
         /\ \E old \in InitialDbs : db.rows = old.rows /\ db.indexes = old.indexes
         /\ db.txn.rows = StoredRows(written)
    /\ wstate = "footer" =>
         /\ SubSeq(sqllog, Len(sqllog) - 1, Len(sqllog)) = <<"CREATE INDEX", "COMMIT">>
         /\ Count(sqllog, "CREATE INDEX") = 1 /\ Count(sqllog, "COMMIT") = 1
         /\ writer.timefield \in db.indexes
         /\ db.txn = NoTxn
         /\ \E old \in InitialDbs : db.rows = old.rows \o StoredRows(written)

\* A SQLiteWriter has run the whole protocol with two items, into a table
\* that held a row.
C7_Witness ==
  /\ writer /= None /\ writer.cls = "SQLiteWriter"
  /\ wstate = "footer" /\ Len(written) = 2
  /\ Len(db.rows) = 3 /\ reader = None

====
